---- MODULE Spec2Model ----
(***************************************************************************)
(* The three /orchestrate prototypes of the Tidewave orchestrator:         *)
(*   "current_app"    src/current_app.py     (plain sequential handler)    *)
(*   "main"           src/main.py            (LangGraph, verify/heal loop) *)
(*   "main_langgraph" src/main_langgraph.py  (LangGraph, plan via LLM)     *)
(* One request is followed from its arrival to its response.  Every        *)
(* outbound HTTP call (webhook POST, health GET, LLM POST, audit-log POST) *)
(* has a nondeterministic outcome: a status code or a transport error.     *)
(* A text is a sequence of characters; Korean syllables are written in     *)
(* romanised form with the prefix "ko_" (one symbol per syllable).         *)
(***************************************************************************)
EXTENDS Integers, Sequences, FiniteSets, TLC

VARIABLES
    variant,        \* which prototype serves the request
    cfg,            \* environment-derived configuration
    req,            \* the request body: text/prompt and critical flag
    pc,             \* position of the handler / next graph node
    prompt,         \* the instruction text the handler works on
    intent,         \* classified intent, "None" before classification
    retries,        \* OrchestratorState.retries (main.py)
    verify_passed,  \* OrchestratorState.verify_passed: "None", "True", "False"
    results,        \* result fields of the state / response
    calls,          \* ordered log of the actions and outbound calls made
    response,       \* "none", "200", "400" (HTTPException), "500" (unhandled)
    fault           \* the function an unhandled exception escaped from

vars == <<variant, cfg, req, pc, prompt, intent, retries, verify_passed,
          results, calls, response, fault>>

----------------------------------------------------------------------------
(* Bounds of the model *)

\* cap on the heal attempts followed in one request (main.py has no bound
\* of its own on the health path)
MaxHeals == 3

\* a small configured value of LLM_PROMOTION_THRESHOLD, besides the default
SmallThreshold == 4

\* number of words an instruction text is put together from, when the
\* classifiers are checked on their own
MaxWords == 2

----------------------------------------------------------------------------
(* Program constants *)

LLM_PROMOTION_THRESHOLD == 120

VERIFY_CRITICAL_LEN == 200

----------------------------------------------------------------------------
(* Characters and texts *)

UpperChars == <<"A","B","C","D","E","F","G","H","I","J","K","L","M",
                "N","O","P","Q","R","S","T","U","V","W","X","Y","Z">>

LowerChars == <<"a","b","c","d","e","f","g","h","i","j","k","l","m",
                "n","o","p","q","r","s","t","u","v","w","x","y","z">>

WhitespaceChars == {" ", "\t", "\n"}

\* str.lower() on one character
LowerChar(c) ==
    IF \E i \in 1..Len(UpperChars) : UpperChars[i] = c
    THEN LowerChars[CHOOSE i \in 1..Len(UpperChars) : UpperChars[i] = c]
    ELSE c

\* str.lower()
Lower(s) == [i \in 1..Len(s) |-> LowerChar(s[i])]

\* str.strip(): drop leading and trailing whitespace
Strip(s) ==
    LET idx == {i \in 1..Len(s) : s[i] \notin WhitespaceChars}
    IN  IF idx = {} THEN <<>>
        ELSE LET lo == CHOOSE i \in idx : \A j \in idx : i <= j
                 hi == CHOOSE i \in idx : \A j \in idx : j <= i
             IN  SubSeq(s, lo, hi)

\* k in s  (substring test, case-sensitive)
Contains(s, k) ==
    \E i \in 0..(Len(s) - Len(k)) : \A j \in 1..Len(k) : s[i + j] = k[j]

\* re.search(k, s, re.I) for a literal k
ContainsI(s, k) ==
    \E i \in 0..(Len(s) - Len(k)) :
        \A j \in 1..Len(k) : LowerChar(s[i + j]) = LowerChar(k[j])

Pad(n) == [i \in 1..n |-> "x"]

\* keywords
kw_deploy   == <<"d","e","p","l","o","y">>
kw_redeploy == <<"r","e","d","e","p","l","o","y">>
kw_health   == <<"h","e","a","l","t","h">>
kw_status   == <<"s","t","a","t","u","s">>
kw_alive    == <<"a","l","i","v","e">>
kw_baepo    == <<"ko_bae","ko_po">>
kw_jaebaepo == <<"ko_jae","ko_bae","ko_po">>
kw_helseu   == <<"ko_hel","ko_seu">>
kw_sangtae  == <<"ko_sang","ko_tae">>
kw_saraiss  == <<"ko_sal","ko_a","ko_iss">>

----------------------------------------------------------------------------
(* Intent classification, one operator per prototype *)

\* main.py plan_node
MainDeployKeywords == {kw_baepo, kw_jaebaepo, kw_deploy}
MainHealthKeywords == {kw_helseu, kw_health, kw_sangtae, kw_alive}

main_classify_health_first(text) ==
    LET txt == Lower(text)
    IN  IF \E k \in MainHealthKeywords : Contains(txt, k) THEN "health"
        ELSE IF \E k \in MainDeployKeywords : Contains(txt, k) THEN "deploy"
        ELSE "other"

main_classify(text) ==
    LET txt == Lower(text)
    IN  IF \E k \in MainDeployKeywords : Contains(txt, k) THEN "deploy"
        ELSE IF \E k \in MainHealthKeywords : Contains(txt, k) THEN "health"
        ELSE "other"

\* current_app.py orchestrate
AppDeployKeywords == {kw_baepo, kw_redeploy, kw_deploy, kw_jaebaepo}
AppHealthKeywords == {kw_helseu, kw_health, kw_sangtae, kw_status, kw_saraiss}

app_classify(text) ==
    IF \E k \in AppDeployKeywords : ContainsI(text, k) THEN "deploy_frontend"
    ELSE IF \E k \in AppHealthKeywords : ContainsI(text, k) THEN "health_check"
    ELSE "llm_plan"

\* main_langgraph.py orchestrate
LgDeployKeywords == {kw_baepo, kw_deploy, kw_jaebaepo}
LgHealthKeywords == {kw_helseu, kw_health, kw_sangtae}

lg_classify_case_sensitive(text) ==
    IF \E k \in LgDeployKeywords : Contains(text, k) THEN "deploy"
    ELSE IF \E k \in LgHealthKeywords : Contains(text, k) THEN "health"
    ELSE "other"

lg_classify(text) ==
    IF \E k \in LgDeployKeywords : ContainsI(text, k) THEN "deploy"
    ELSE IF \E k \in LgHealthKeywords : ContainsI(text, k) THEN "health"
    ELSE "other"

\* the three intents of the data model
IsDeploy == intent \in {"deploy", "deploy_frontend"}
IsHealthCheck == intent \in {"health", "health_check"}
IsOther == intent \in {"other", "llm_plan"}

----------------------------------------------------------------------------
(* Outbound calls and their outcomes *)

HookStatuses  == {200, 500}
ProbeStatuses == {200, 204, 500}
LLMStatuses   == {200, 500}
LogStatuses   == {201, 500}

\* an HTTP exchange ends with a status code or raises (timeout, network error)
Outcomes(statuses) ==
    {[res |-> "status", code |-> c] : c \in statuses}
        \cup {[res |-> "error", code |-> 0]}

\* one entry of the call log
\* (ok: the "ok" field of a result that has one, FALSE until it is set)
Ev(kind, o, esc, n) ==
    [kind |-> kind, res |-> o.res, code |-> o.code, esc |-> esc, n |-> n,
     ok |-> FALSE]

Marker(kind) ==
    [kind |-> kind, res |-> "none", code |-> 0, esc |-> FALSE, n |-> 0,
     ok |-> FALSE]

WithOk(e, b) == [e EXCEPT !.ok = b]

NotConfigured == [res |-> "missing", code |-> 0]

\* one entry of the response: the step and what it produced
Step(name, evs) == [step |-> name, evs |-> evs]

\* POST to each configured hook in turn; an exception of one POST is caught
\* and the next hook is still posted.  keepIdx: main.py numbers the hooks
\* before dropping the empty ones, the other two after.
PostHooks(o1, o2, keepIdx) ==
    (IF cfg.hook1 THEN <<Ev("hook", o1, FALSE, 1)>> ELSE <<>>)
        \o (IF cfg.hook2
            THEN <<Ev("hook", o2, FALSE, IF keepIdx \/ cfg.hook1 THEN 2 ELSE 1)>>
            ELSE <<>>)

call_vercel_hooks(o1, o2) == PostHooks(o1, o2, FALSE)

\* a probe counted as passed for the whole 2xx range
HealthOk_2xx(o) == o.res = "status" /\ o.code \in 200..299

\* the "ok" field of call_health's result
HealthOk(o) == o.res = "status" /\ o.code = 200

\* call_health: no GET without API_HEALTH; an exception of the GET is caught
call_health(o) ==
    IF cfg.health THEN WithOk(Ev("health", o, FALSE, 0), HealthOk(o))
    ELSE Ev("health", NotConfigured, FALSE, 0)

\* the "ok" field of call_anthropic's result
LLMOk(o) == o.res = "status" /\ o.code \in {200, 201}

\* call_anthropic's choice of the larger model
Escalate(p, critical) == critical \/ Len(p) > cfg.threshold

\* call_anthropic: no POST without ANTHROPIC_API_KEY; the POST is not inside
\* a try block, so a transport error leaves the function as an exception
call_anthropic(p, critical, o) ==
    IF cfg.apiKey THEN WithOk(Ev("llm", o, Escalate(p, critical), 0), LLMOk(o))
    ELSE Ev("llm", NotConfigured, FALSE, 0)

Raises(ev) == ev.res = "error"

----------------------------------------------------------------------------
(* Requests and configurations *)

txt_empty  == <<>>
txt_blank  == <<" ", "\t">>
txt_deploy == <<"D","e","p","l","o","y"," ","n","o","w">>
txt_health == <<"h","e","a","l","t","h","?">>
txt_status == <<" ","s","t","a","t","u","s">>
txt_hi     == <<"h","i">>

\* the instruction texts sent; the last two are longer than the default
\* promotion threshold and than the length node_verify compares with
ReqTexts ==
    {txt_empty, txt_blank, txt_deploy, txt_health, txt_status, txt_hi,
     Pad(LLM_PROMOTION_THRESHOLD + 1), Pad(VERIFY_CRITICAL_LEN + 1)}

Thresholds == {LLM_PROMOTION_THRESHOLD, SmallThreshold}

Config(h1, h2, health, key, supa, thr) ==
    [hook1 |-> h1, hook2 |-> h2, health |-> health, apiKey |-> key,
     supabase |-> supa, threshold |-> thr]

\* main.py: NLReq has the text only; HEALTH_URL falls back to the local
\* /health; no LLM is used; SUPABASE_URL and SUPABASE_KEY are read but no
\* audit log is written
MainInit ==
    /\ variant = "main"
    /\ \E h1, h2, supa \in BOOLEAN :
          cfg = Config(h1, h2, TRUE, FALSE, supa, LLM_PROMOTION_THRESHOLD)
    /\ \E t \in ReqTexts : req = [text |-> t, critical |-> FALSE]

\* current_app.py and main_langgraph.py: every integration is optional
FullInit ==
    /\ variant \in {"current_app", "main_langgraph"}
    /\ \E h1, h2, health, key, supa \in BOOLEAN : \E thr \in Thresholds :
          cfg = Config(h1, h2, health, key, supa, thr)
    /\ \E t \in ReqTexts : \E c \in BOOLEAN : req = [text |-> t, critical |-> c]

Init ==
    /\ MainInit \/ FullInit
    /\ pc = "start"
    /\ prompt = <<>>
    /\ intent = "None"
    /\ retries = 0
    /\ verify_passed = "None"
    /\ results = <<>>
    /\ calls = <<>>
    /\ response = "none"
    /\ fault = "none"

----------------------------------------------------------------------------
(* src/main.py *)

\* orchestrate: the text goes into the graph as it is
main_orchestrate ==
    /\ variant = "main" /\ pc = "start"
    /\ prompt' = req.text
    /\ pc' = "plan"
    /\ UNCHANGED <<variant, cfg, req, intent, retries, verify_passed,
                   results, calls, response, fault>>

main_plan_node ==
    /\ variant = "main" /\ pc = "plan"
    /\ intent' = main_classify(prompt)
    /\ results' = Append(results, Step("plan", <<>>))
    /\ pc' = "implement"
    /\ UNCHANGED <<variant, cfg, req, prompt, retries, verify_passed,
                   calls, response, fault>>

\* the body of implement_node: what it adds to the call log
main_implement_noskip(o1, o2) == <<Marker("redeploy")>> \o PostHooks(o1, o2, TRUE)

main_implement(o1, o2) ==
    IF intent = "health" THEN <<>>
    ELSE <<Marker("redeploy")>> \o PostHooks(o1, o2, TRUE)

main_implement_node ==
    /\ variant = "main" /\ pc = "implement"
    /\ \E o1, o2 \in Outcomes(HookStatuses) :
          /\ calls' = calls \o main_implement(o1, o2)
          /\ results' = Append(results, Step("implement", main_implement(o1, o2)))
    /\ pc' = "verify"
    /\ UNCHANGED <<variant, cfg, req, prompt, intent, retries, verify_passed,
                   response, fault>>

\* the conditional edge after verify: "heal" or "END"
verify_router_unbounded(i, vp, r) ==
    IF vp = "True" THEN "END" ELSE "heal"

verify_router(i, vp, r) ==
    IF i = "health" THEN (IF vp # "False" THEN "END" ELSE "heal")
    ELSE IF vp = "True" THEN "END"
    ELSE IF r < 1 THEN "heal" ELSE "END"

\* verify_node, then the conditional edge
main_verify_node ==
    /\ variant = "main" /\ pc = "verify"
    /\ \E o \in Outcomes(ProbeStatuses) :
          LET ok == HealthOk(o)
              vp == IF ok THEN "True" ELSE "False"
              probe == WithOk(Ev("health", o, FALSE, 0), ok)
          IN  /\ verify_passed' = vp
              /\ calls' = Append(calls, probe)
              /\ results' = Append(results, Step("verify", <<probe>>))
              /\ pc' = verify_router(intent, vp, retries)
    /\ UNCHANGED <<variant, cfg, req, prompt, intent, retries, response, fault>>

\* heal_node: count the attempt and run implement_node again
main_heal_node ==
    /\ variant = "main" /\ pc = "heal"
    /\ retries < MaxHeals
    /\ retries' = retries + 1
    /\ \E o1, o2 \in Outcomes(HookStatuses) :
          /\ calls' = (calls \o <<Marker("heal")>>) \o main_implement(o1, o2)
          /\ results' = Append(results, Step("heal", main_implement(o1, o2)))
    /\ pc' = "verify"
    /\ UNCHANGED <<variant, cfg, req, prompt, intent, verify_passed,
                   response, fault>>

\* the graph reached END: orchestrate returns the final state
main_return ==
    /\ variant = "main" /\ pc = "END"
    /\ pc' = "done"
    /\ response' = "200"
    /\ UNCHANGED <<variant, cfg, req, prompt, intent, retries, verify_passed,
                   results, calls, fault>>

MainNext ==
    \/ main_orchestrate
    \/ main_plan_node
    \/ main_implement_node
    \/ main_verify_node
    \/ main_heal_node
    \/ main_return

----------------------------------------------------------------------------
(* src/current_app.py *)

\* orchestrate up to the first awaited call: strip, reject the empty text,
\* classify, and branch on the intent
app_orchestrate ==
    /\ variant = "current_app" /\ pc = "start"
    /\ LET text == Strip(req.text)
       IN  IF text = <<>>
           THEN /\ response' = "400"
                /\ pc' = "done"
                /\ UNCHANGED <<prompt, intent>>
           ELSE /\ prompt' = text
                /\ intent' = app_classify(text)
                /\ pc' = CASE app_classify(text) = "deploy_frontend" -> "call_vercel_hooks"
                           [] app_classify(text) = "health_check" -> "call_health"
                           [] OTHER -> "call_anthropic"
                /\ UNCHANGED response
    /\ UNCHANGED <<variant, cfg, req, retries, verify_passed, results, calls, fault>>

app_call_vercel_hooks ==
    /\ variant = "current_app" /\ pc = "call_vercel_hooks"
    /\ \E o1, o2 \in Outcomes(HookStatuses) :
          /\ calls' = (calls \o <<Marker("redeploy")>>) \o call_vercel_hooks(o1, o2)
          /\ results' = Append(results, Step("deploy", call_vercel_hooks(o1, o2)))
    /\ pc' = "call_health"
    /\ UNCHANGED <<variant, cfg, req, prompt, intent, retries, verify_passed,
                   response, fault>>

app_call_health ==
    /\ variant = "current_app" /\ pc = "call_health"
    /\ \E o \in Outcomes(ProbeStatuses) :
          /\ calls' = Append(calls, call_health(o))
          /\ results' = Append(results, Step("health", <<call_health(o)>>))
    /\ pc' = "log_supabase"
    /\ UNCHANGED <<variant, cfg, req, prompt, intent, retries, verify_passed,
                   response, fault>>

\* call_anthropic(text, bool(body.critical)); an exception of the POST
\* leaves orchestrate too
app_call_anthropic ==
    /\ variant = "current_app" /\ pc = "call_anthropic"
    /\ \E o \in Outcomes(LLMStatuses) :
          LET ai == call_anthropic(prompt, req.critical, o)
          IN  /\ calls' = Append(calls, ai)
              /\ IF Raises(ai)
                 THEN /\ pc' = "done"
                      /\ response' = "500"
                      /\ fault' = "call_anthropic"
                      /\ UNCHANGED results
                 ELSE /\ pc' = "log_supabase"
                      /\ results' = Append(results, Step("llm", <<ai>>))
                      /\ UNCHANGED <<response, fault>>
    /\ UNCHANGED <<variant, cfg, req, prompt, intent, retries, verify_passed>>

\* log_supabase: nothing without SUPABASE_URL and SUPABASE_KEY; the POST is
\* inside try/except Exception: pass
app_log(o) ==
    IF cfg.supabase THEN Ev("log", o, FALSE, 0)
    ELSE Ev("log", NotConfigured, FALSE, 0)

app_log_supabase ==
    /\ variant = "current_app" /\ pc = "log_supabase"
    /\ \E o \in Outcomes(LogStatuses) : calls' = Append(calls, app_log(o))
    /\ pc' = "return"
    /\ UNCHANGED <<variant, cfg, req, prompt, intent, retries, verify_passed,
                   results, response, fault>>

\* return {"ok": True, "result": results}
app_return ==
    /\ variant = "current_app" /\ pc = "return"
    /\ pc' = "done"
    /\ response' = "200"
    /\ UNCHANGED <<variant, cfg, req, prompt, intent, retries, verify_passed,
                   results, calls, fault>>

AppNext ==
    \/ app_orchestrate
    \/ app_call_vercel_hooks
    \/ app_call_health
    \/ app_call_anthropic
    \/ app_log_supabase
    \/ app_return

----------------------------------------------------------------------------
(* src/main_langgraph.py *)

\* orchestrate up to the graph run: strip, reject the empty prompt, classify
lg_orchestrate ==
    /\ variant = "main_langgraph" /\ pc = "start"
    /\ LET p == Strip(req.text)
       IN  IF p = <<>>
           THEN /\ response' = "400"
                /\ pc' = "done"
                /\ UNCHANGED <<prompt, intent>>
           ELSE /\ prompt' = p
                /\ intent' = lg_classify(p)
                /\ pc' = "plan"
                /\ UNCHANGED response
    /\ UNCHANGED <<variant, cfg, req, retries, verify_passed, results, calls, fault>>

PlanPrefix == <<"P","l","a","n"," ","f","o","r"," ","i","n","t","e","n","t",":"," ">>
InstructionPrefix == <<"\n","I","n","s","t","r","u","c","t","i","o","n",":"," ">>

IntentText(i) ==
    CASE i = "deploy" -> kw_deploy
      [] i = "health" -> kw_health
      [] OTHER -> <<"o","t","h","e","r">>

\* f"Plan for intent: {state.intent}\nInstruction: {state.prompt}"
PlanPrompt(i, p) == ((PlanPrefix \o IntentText(i)) \o InstructionPrefix) \o p

\* an exception left a node: the graph run and orchestrate end with it
LgRaise(where) ==
    /\ pc' = "done"
    /\ response' = "500"
    /\ fault' = where

\* node_plan: ask the LLM for a plan, whatever the intent
lg_node_plan ==
    /\ variant = "main_langgraph" /\ pc = "plan"
    /\ \E o \in Outcomes(LLMStatuses) :
          LET plan == call_anthropic(PlanPrompt(intent, prompt), FALSE, o)
          IN  /\ calls' = Append(calls, plan)
              /\ IF Raises(plan)
                 THEN /\ LgRaise("call_anthropic")
                      /\ UNCHANGED results
                 ELSE /\ results' = Append(results, Step("plan", <<plan>>))
                      /\ pc' = IF intent = "deploy" THEN "implement" ELSE "verify"
                      /\ UNCHANGED <<response, fault>>
    /\ UNCHANGED <<variant, cfg, req, prompt, intent, retries, verify_passed>>

\* node_implement (entered for the deploy intent only)
lg_node_implement ==
    /\ variant = "main_langgraph" /\ pc = "implement"
    /\ IF intent = "deploy"
       THEN \E o1, o2 \in Outcomes(HookStatuses) :
              /\ calls' = (calls \o <<Marker("redeploy")>>) \o call_vercel_hooks(o1, o2)
              /\ results' = Append(results, Step("implement", call_vercel_hooks(o1, o2)))
       ELSE /\ results' = Append(results, Step("implement", <<>>))
            /\ UNCHANGED calls
    /\ pc' = "verify"
    /\ UNCHANGED <<variant, cfg, req, prompt, intent, retries, verify_passed,
                   response, fault>>

\* the critical argument node_verify passes to call_anthropic
lg_verify_critical(p) == Len(p) > VERIFY_CRITICAL_LEN

\* node_verify: a health probe for deploy and health, the LLM otherwise
lg_node_verify ==
    /\ variant = "main_langgraph" /\ pc = "verify"
    /\ IF intent \in {"deploy", "health"}
       THEN \E o \in Outcomes(ProbeStatuses) :
              LET verify == call_health(o)
              IN  /\ calls' = Append(calls, verify)
                  /\ results' = Append(results, Step("verify", <<verify>>))
                  /\ pc' = IF intent = "deploy" /\ ~verify.ok
                           THEN "heal" ELSE "node_done"
                  /\ UNCHANGED <<response, fault>>
       ELSE \E o \in Outcomes(LLMStatuses) :
              LET llm == call_anthropic(prompt, lg_verify_critical(prompt), o)
              IN  /\ calls' = Append(calls, llm)
                  /\ IF Raises(llm)
                     THEN /\ LgRaise("call_anthropic")
                          /\ UNCHANGED results
                     ELSE /\ results' = Append(results, Step("verify", <<llm>>))
                          /\ pc' = "node_done"
                          /\ UNCHANGED <<response, fault>>
    /\ UNCHANGED <<variant, cfg, req, prompt, intent, retries, verify_passed>>

\* node_heal: the hooks again, one more health probe, then done
lg_node_heal ==
    /\ variant = "main_langgraph" /\ pc = "heal"
    /\ \E o1, o2 \in Outcomes(HookStatuses) : \E o \in Outcomes(ProbeStatuses) :
          LET heal == call_vercel_hooks(o1, o2)
              verify2 == call_health(o)
          IN  /\ calls' = ((calls \o <<Marker("heal"), Marker("redeploy")>>) \o heal)
                              \o <<verify2>>
              /\ results' = Append(results, Step("heal", Append(heal, verify2)))
    /\ pc' = "node_done"
    /\ UNCHANGED <<variant, cfg, req, prompt, intent, retries, verify_passed,
                   response, fault>>

\* node_done: the graph run ends
lg_node_done ==
    /\ variant = "main_langgraph" /\ pc = "node_done"
    /\ pc' = "log_supabase"
    /\ UNCHANGED <<variant, cfg, req, prompt, intent, retries, verify_passed,
                   results, calls, response, fault>>

\* log_supabase: nothing without SUPABASE_URL and SUPABASE_KEY; the POST is
\* not inside a try block
lg_log(o) ==
    IF cfg.supabase THEN Ev("log", o, FALSE, 0)
    ELSE Ev("log", NotConfigured, FALSE, 0)

lg_log_supabase ==
    /\ variant = "main_langgraph" /\ pc = "log_supabase"
    /\ \E o \in Outcomes(LogStatuses) :
          /\ calls' = Append(calls, lg_log(o))
          /\ IF Raises(lg_log(o))
             THEN LgRaise("log_supabase")
             ELSE /\ pc' = "return"
                  /\ UNCHANGED <<response, fault>>
    /\ UNCHANGED <<variant, cfg, req, prompt, intent, retries, verify_passed, results>>

\* return {"ok": True, ...}
lg_return ==
    /\ variant = "main_langgraph" /\ pc = "return"
    /\ pc' = "done"
    /\ response' = "200"
    /\ UNCHANGED <<variant, cfg, req, prompt, intent, retries, verify_passed,
                   results, calls, fault>>

LgNext ==
    \/ lg_orchestrate
    \/ lg_node_plan
    \/ lg_node_implement
    \/ lg_node_verify
    \/ lg_node_heal
    \/ lg_node_done
    \/ lg_log_supabase
    \/ lg_return

----------------------------------------------------------------------------
Next == MainNext \/ AppNext \/ LgNext

Spec == Init /\ [][Next]_vars

----------------------------------------------------------------------------
(* What a request has done so far, read off the call log *)

Count(kind) == Cardinality({i \in DOMAIN calls : calls[i].kind = kind})

\* invocations of the redeploy action, webhook POSTs, entries into Healing
RedeployCount == Count("redeploy")
HookPosts == Count("hook")
HealCount == Count("heal")

IsKind(kind, e) == e.kind = kind
IsProbe(e) == IsKind("health", e)

\* the health probes performed, in order
Probes == SelectSeq(calls, IsProbe)

\* the retry count and the verification result the request ends with
ReportedRetries == IF variant = "main" THEN retries ELSE HealCount

ReportedVerifyPassed ==
    IF variant = "main" THEN verify_passed = "True"
    ELSE Probes # <<>> /\ HealthOk(Probes[Len(Probes)])

\* an action call that timed out, hit a network error or got a non-2xx status
Failed(e) == e.res = "error" \/ (e.res = "status" /\ ~(e.code \in 200..299))

ActionKinds == {"hook", "health", "llm"}

\* the events the response carries
Recorded ==
    UNION {{results[i].evs[j] : j \in DOMAIN results[i].evs} : i \in DOMAIN results}

----------------------------------------------------------------------------
(* The heal loop *)

\* C1: for a request classified as Deploy the redeploy action is invoked at
\* most twice (the initial one and at most one heal) and the retries counter
\* never exceeds 1, whatever the health probes return.
C1_DeployHealBounded ==
    IsDeploy => /\ RedeployCount <= 2
                /\ HealCount <= 1
                /\ retries <= 1

\* a Deploy request of main.py whose two probes both failed: redeployed
\* twice, retries = 1, and the graph ended
C1_Witness ==
    /\ variant = "main" /\ IsDeploy /\ pc = "done"
    /\ RedeployCount = 2 /\ retries = 1 /\ verify_passed = "False"
    /\ Len(Probes) = 2

\* C2: only the deploy path heals: a HealthCheck or Other request never
\* enters Healing and its retries counter stays 0.
C2_OnlyDeployHeals ==
    (IsHealthCheck \/ IsOther) => /\ pc # "heal"
                                  /\ HealCount = 0
                                  /\ retries = 0

\* C3: the verify-and-heal loop ends after at most one Healing transition,
\* for every intent and every sequence of probe outcomes.
C3_AtMostOneHealing ==
    /\ HealCount <= 1
    /\ (pc = "heal" => HealCount = 0)

\* C4: a HealthCheck request never triggers the redeploy action: no webhook
\* POST is made for it, also when its probe fails.
C4_HealthCheckNeverRedeploys ==
    IsHealthCheck => HookPosts = 0 /\ RedeployCount = 0

\* a HealthCheck request of main.py with a hook configured, whose probe
\* failed so that heal_node ran implement_node again
C4_Witness ==
    /\ variant = "main" /\ IsHealthCheck
    /\ cfg.hook1 /\ cfg.hook2
    /\ HealCount >= 1
    /\ \E i \in DOMAIN Probes : ~HealthOk(Probes[i])
    /\ pc = "done"

\* C5: the outcome the loop ends with follows from the probes: a first probe
\* that succeeds gives verify_passed = true and retries = 0; a first and a
\* second probe that both fail give verify_passed = false and retries = 1;
\* verify_passed is the result of the last probe.  (A probe succeeds here as
\* the code has it, with status 200.)
C5_OutcomeFollowsProbes ==
    (response = "200" /\ Probes # <<>>) =>
        /\ HealthOk(Probes[1]) => (ReportedVerifyPassed /\ ReportedRetries = 0)
        /\ (Len(Probes) >= 2 /\ ~HealthOk(Probes[1]) /\ ~HealthOk(Probes[2]))
              => (~ReportedVerifyPassed /\ ReportedRetries = 1)
        /\ ReportedVerifyPassed <=> HealthOk(Probes[Len(Probes)])

----------------------------------------------------------------------------
(* Input validation, dispatch and failures *)

\* C6: a request whose text is empty or whitespace-only is rejected with a
\* client error before classification, and nothing downstream is called.
C6_EmptyRejected ==
    Strip(req.text) = <<>> =>
        /\ calls = <<>>
        /\ intent = "None"
        /\ pc \in {"start", "done"}
        /\ (pc = "done" => response = "400")

\* the completion calls made for the instruction itself (the "llm" step of
\* current_app.py, the "verify" step of main_langgraph.py) that were posted
Completions ==
    {e \in UNION {{results[i].evs[j] : j \in DOMAIN results[i].evs} :
                     i \in {k \in DOMAIN results : results[k].step \in {"llm", "verify"}}} :
        e.kind = "llm" /\ e.res # "missing"}

\* C7: for an Other request the LLM action escalates to the larger model if
\* and only if the critical flag is set or the instruction is longer than
\* the configured threshold.
C7_EscalateIffCriticalOrLong ==
    IsOther => \A e \in Completions :
                  e.esc <=> (req.critical \/ Len(prompt) > cfg.threshold)

\* the kinds of action a request has performed (the audit log is no action)
KindsDone == {calls[i].kind : i \in DOMAIN calls} \ {"heal", "log"}

\* C8: the intent determines the kinds of action: Deploy redeploys and
\* probes, HealthCheck probes, Other calls the LLM; an Other request posts
\* to no webhook and a Deploy or HealthCheck request never calls the LLM.
C8_ActionsByIntent ==
    /\ IsDeploy => KindsDone \subseteq {"redeploy", "hook", "health"}
    /\ IsHealthCheck => KindsDone \subseteq {"health"}
    /\ IsOther => KindsDone \subseteq {"llm"}

\* the action calls that failed
FailedActions ==
    {calls[i] : i \in {k \in DOMAIN calls :
                          calls[k].kind \in ActionKinds /\ Failed(calls[k])}}

\* C9: a webhook POST, health probe or LLM call that times out, hits a
\* network error or gets a non-2xx status is not raised to the caller: the
\* request still ends with a normal response, which records the failed
\* result.  (The audit log's own failure is left aside here.)
C9_ActionFailureNotRaised ==
    (pc = "done" /\ FailedActions # {} /\ fault # "log_supabase") =>
        /\ response = "200"
        /\ FailedActions \subseteq Recorded

\* C10: a failure of the audit-log call (network error, timeout, error
\* status) is swallowed: the request still ends with its normal response.
C10_LogFailureSwallowed ==
    (pc = "done" /\ \E i \in DOMAIN calls :
                        calls[i].kind = "log" /\ Failed(calls[i]))
        => (response = "200" /\ fault = "none")

----------------------------------------------------------------------------
(* Missing configuration *)

\* the steps of the response that hold a redeploy action's result
RedeploySteps ==
    {i \in DOMAIN results : results[i].step \in {"deploy", "implement", "heal"}}

\* the per-target entries of a redeploy result that say "not configured"
NotConfiguredEntries(i) ==
    {j \in DOMAIN results[i].evs :
        results[i].evs[j].kind = "hook" /\ results[i].evs[j].res = "missing"}

\* C11: a Deploy request that runs with no webhook URL configured gets an
\* explicit "not configured" result for each of the two targets from the
\* redeploy action, the verify step still runs, no exception propagates and
\* the response is the normal one (ok = true).
C11_NoHooksReportedNotConfigured ==
    (IsDeploy /\ ~cfg.hook1 /\ ~cfg.hook2) =>
        /\ \A i \in RedeploySteps : Cardinality(NotConfiguredEntries(i)) = 2
        /\ (pc = "done" => (response = "200" /\ Probes # <<>>))

----------------------------------------------------------------------------
(* The classifiers on their own: texts put together from words *)

\* str.upper() on one character
UpperChar(c) ==
    IF \E i \in 1..Len(LowerChars) : LowerChars[i] = c
    THEN UpperChars[CHOOSE i \in 1..Len(LowerChars) : LowerChars[i] = c]
    ELSE c

Upper(s) == [i \in 1..Len(s) |-> UpperChar(s[i])]

Capitalize(s) == [i \in 1..Len(s) |-> IF i = 1 THEN UpperChar(s[i]) ELSE s[i]]

\* every keyword of any prototype, a word that is no keyword, and a blank
BaseWords ==
    {kw_deploy, kw_redeploy, kw_health, kw_status, kw_alive,
     kw_baepo, kw_jaebaepo, kw_helseu, kw_sangtae, kw_saraiss,
     txt_hi, <<" ">>}

\* the words in lower case, in upper case and capitalised
Words ==
    BaseWords \cup {Upper(w) : w \in BaseWords} \cup {Capitalize(w) : w \in BaseWords}

RECURSIVE TextsOf(_)
TextsOf(n) ==
    IF n = 0 THEN {<<>>}
    ELSE TextsOf(n - 1) \cup {t \o w : t \in TextsOf(n - 1), w \in Words}

ClassifyTexts == TextsOf(MaxWords)

ClassifyInit ==
    /\ variant \in {"main", "current_app", "main_langgraph"}
    /\ cfg = Config(FALSE, FALSE, TRUE, FALSE, FALSE, LLM_PROMOTION_THRESHOLD)
    /\ \E t \in ClassifyTexts : req = [text |-> t, critical |-> FALSE]
    /\ pc = "start"
    /\ prompt = <<>>
    /\ intent = "None"
    /\ retries = 0
    /\ verify_passed = "None"
    /\ results = <<>>
    /\ calls = <<>>
    /\ response = "none"
    /\ fault = "none"

\* each handler up to and including its classification of the text
ClassifyNext ==
    \/ main_orchestrate
    \/ main_plan_node
    \/ app_orchestrate
    \/ lg_orchestrate

SpecClassify == ClassifyInit /\ [][ClassifyNext]_vars

\* the text holds the (lower-case) keyword k in some mix of letter cases
HoldsAnyCase(t, k) ==
    \E i \in 1..(Len(t) - Len(k) + 1) :
        \A j \in 1..Len(k) : t[i + j - 1] \in {k[j], UpperChar(k[j])}

\* the deploy and the health keywords of any prototype
DeployKeywords == {kw_deploy, kw_redeploy, kw_baepo, kw_jaebaepo}
HealthKeywords == {kw_health, kw_status, kw_alive, kw_helseu, kw_sangtae, kw_saraiss}

HasDeployKeyword(t) == \E k \in DeployKeywords : HoldsAnyCase(t, k)
HasHealthKeyword(t) == \E k \in HealthKeywords : HoldsAnyCase(t, k)

\* C12: Deploy has priority: a text that holds a deploy keyword, in any
\* letter case and whether or not it also holds a health keyword, is
\* classified Deploy; HealthCheck is the result only of a text that holds a
\* health keyword and no deploy keyword.
C12_DeployPriority ==
    intent # "None" =>
        /\ HasDeployKeyword(prompt) => IsDeploy
        /\ IsHealthCheck => (HasHealthKeyword(prompt) /\ ~HasDeployKeyword(prompt))

\* main.py classified as Deploy a text that holds a health keyword too and
\* the deploy keyword in upper case only
C12_Witness ==
    /\ variant = "main" /\ intent = "deploy"
    /\ HasHealthKeyword(prompt)
    /\ ~(\E k \in DeployKeywords : Contains(prompt, k))

----------------------------------------------------------------------------
(* The verify step *)

\* C13 as amended: the verify step counts a health probe as passed for the
\* HTTP status 200 only; every other status, 201..299 included, a transport
\* error or a missing health URL counts as failed.
C13_PassedIffStatus200 ==
    /\ \A i \in DOMAIN Probes :
          Probes[i].ok <=> (Probes[i].res = "status" /\ Probes[i].code = 200)
    /\ (variant = "main" /\ Probes # <<>>) =>
          ((verify_passed = "True") <=>
              (Probes[Len(Probes)].res = "status" /\ Probes[Len(Probes)].code = 200))

\* a probe of main.py answered 204 and verification is recorded as failed
C13_Witness ==
    /\ variant = "main" /\ Probes # <<>>
    /\ Probes[Len(Probes)].res = "status" /\ Probes[Len(Probes)].code = 204
    /\ ~Probes[Len(Probes)].ok
    /\ verify_passed = "False"

\* C13: the verify step counts a health probe as passed for every HTTP
\* status in 200..299 and as failed for every other status or a transport
\* error.
C13_PassedIffStatus2xx ==
    \A i \in DOMAIN Probes :
        Probes[i].ok <=> (Probes[i].res = "status" /\ Probes[i].code \in 200..299)

----------------------------------------------------------------------------
(* Order of the steps *)

ConfiguredHooks == (IF cfg.hook1 THEN 1 ELSE 0) + (IF cfg.hook2 THEN 1 ELSE 0)

\* the first health probe comes after a redeploy action that has posted to
\* every configured hook
FirstProbeAfterRedeploy ==
    LET fp == CHOOSE i \in DOMAIN calls :
                  /\ calls[i].kind = "health"
                  /\ \A j \in 1..(i - 1) : calls[j].kind # "health"
    IN  /\ \E r \in 1..(fp - 1) : calls[r].kind = "redeploy"
        /\ Cardinality({h \in 1..(fp - 1) : calls[h].kind = "hook"}) = ConfiguredHooks

\* C14: an accepted request goes classify, dispatch, audit log, response:
\* nothing is called before the intent is known, for Deploy the first health
\* probe starts after the redeploy action has finished, and exactly one
\* audit-log call is issued, after all the actions and before the response.
\* (Requests ended by an unhandled exception are left aside here.)
C14_ClassifyDispatchLogRespond ==
    /\ (intent = "None" /\ response # "400") => calls = <<>>
    /\ (IsDeploy /\ Probes # <<>>) => FirstProbeAfterRedeploy
    /\ (pc = "done" /\ response = "200") =>
          /\ Count("log") = 1
          /\ calls[Len(calls)].kind = "log"
    /\ response # "none" => pc = "done"

----------------------------------------------------------------------------
(* The three classifiers side by side *)

IntentKind(i) ==
    CASE i \in {"deploy", "deploy_frontend"} -> "Deploy"
      [] i \in {"health", "health_check"} -> "HealthCheck"
      [] OTHER -> "Other"

\* the intent each prototype derives from a request text: main.py classifies
\* the text as sent, the other two the stripped text
IntentBy(v, text) ==
    CASE v = "main" -> IntentKind(main_classify(text))
      [] v = "current_app" -> IntentKind(app_classify(Strip(text)))
      [] OTHER -> IntentKind(lg_classify(Strip(text)))

\* the prototype that classified the text agrees with the other two
AllAgree ==
    \A v \in {"main", "current_app", "main_langgraph"} :
        IntentBy(v, req.text) = IntentKind(intent)

\* the health keywords all three prototypes have, and those only one has
SharedHealthKeywords == {kw_health, kw_helseu, kw_sangtae}
OwnHealthKeywords == {kw_status, kw_saraiss, kw_alive}

\* a text that only some prototype takes for a health check
Divergent(t) ==
    /\ ~HasDeployKeyword(t)
    /\ ~(\E k \in SharedHealthKeywords : HoldsAnyCase(t, k))
    /\ \E k \in OwnHealthKeywords : HoldsAnyCase(t, k)

\* C15 as amended: the three prototypes derive the same intent from every
\* instruction text except the texts that hold no deploy keyword, none of
\* the health keywords common to the three (health and two Korean ones) and
\* at least one of "status", the Korean "sal-a-iss" (HealthCheck in
\* current_app.py only) or "alive" (HealthCheck in main.py only).
C15_SameIntentUnlessOwnKeyword ==
    intent # "None" => (AllAgree <=> ~Divergent(req.text))

\* current_app.py classified a text holding "status" in capitals next to a
\* shared health keyword, and the other two agree with it
C15_Witness ==
    /\ variant = "current_app" /\ IsHealthCheck
    /\ HoldsAnyCase(req.text, kw_status) /\ ~Contains(req.text, kw_status)
    /\ AllAgree

\* C15: the three prototypes implement the same classifier: they derive the
\* same intent from every instruction text over the keywords of any of them.
C15_SameIntent ==
    intent # "None" => AllAgree

====
